---- MODULE Spec2Model ----
(* A model of src/bot.py: a discord.py bot whose command handlers           *)
(* (categories, speedrun, runners, runner) query the speedrun.com REST API through  *)
(* the blocking helper fetch_data_with_retry.                               *)
(*                                                                          *)
(* discord.py runs every command handler as a coroutine on one event loop.  *)
(* A handler of bot.py holds the loop from its first line to its final      *)
(* `await safe_send(...)`: requests.get and time.sleep block the thread and *)
(* there is no await in between.  The model therefore has one running       *)
(* handler (cur) and a queue of received commands that wait for the loop.   *)
(* bot.py keeps no state between two commands: every variable below is a    *)
(* local of the running handler, or a record of what was observed (fetched, *)
(* reply, prev, the marks in queue).                                        *)
EXTENDS Integers, Sequences, FiniteSets, TLC

(* ------------------------------ bounds ------------------------------ *)
MaxPending == 1       \* commands that wait for the event loop at one time
MaxRuns == 6          \* runs in one leaderboard response (more than top5)
MaxCategories == 2    \* categories in one category-listing response
MaxProfileRuns == 2   \* runs in one response of the runs endpoint

(* ------------------------- program constants ------------------------ *)
MaxAttempts == 3      \* for attempt in range(3)
DefaultRetryAfter == 5 \* response.headers.get("Retry-After", 5)
Top5 == 5             \* top_count = 5 if top.lower() == "top5" else 1
Top1 == 1

GAME_IDS ==
    ( "mc3remix"   :> "midnight_club_3_dub_edition_remix"
   @@ "mc3dub"     :> "midnight_club_3_dub_edition"
   @@ "mc2"        :> "mc2"
   @@ "mc1"        :> "midnight_club_street_racing"
   @@ "mcla"       :> "midnight_club_los_angeles"
   @@ "mcla_remix" :> "midnight_club_los_angeles_remix" )

(* Python's None where a string is expected (dict.get without a default). *)
NoStr == "<None>"
(* Python's None where a JSON document is expected. *)
None == [kind |-> "None"]

(* str.lower() on the strings the model passes to it. *)
Lower(s) ==
    CASE s = "MC1"  -> "mc1"
      [] s = "Any%" -> "any%"
      [] s = "ANY%" -> "any%"
      [] s = "TOP5" -> "top5"
      [] OTHER      -> s

(* dict.get(key): the value, or None. *)
Get(d, k) == IF k \in DOMAIN d THEN d[k] ELSE NoStr

(* --------------------------- command inputs -------------------------- *)
GameArgs == {"mc2", "MC1", "gta"}
CategoryArgs == {"ANY%", "glitchless"}
TopArgs == {"1", "TOP5"}
RunnerArgs == {"Alice", "nobody"}

NoInv == [cmd |-> "", game |-> "", category |-> "", top |-> "", runner_name |-> "",
          during |-> NoStr]

(* ------------------------ the upstream REST API ---------------------- *)
CategoriesUrl(game_id) == [ep |-> "games/categories", game |-> game_id]
LeaderboardUrl(game_id, cid, top) ==
    [ep |-> "leaderboards/category", game |-> game_id, category |-> cid, top |-> top]
GameLeaderboardsUrl(game_id) == [ep |-> "leaderboards/categories", game |-> game_id]
UserUrl(runner_id) == [ep |-> "users", id |-> runner_id]
UsersLookupUrl(runner_name) == [ep |-> "users?lookup", name |-> runner_name]
RunsUrl(user_id) == [ep |-> "runs", user |-> user_id]
CategoryUrl(category_id) == [ep |-> "categories", id |-> category_id]
NoUrl == [ep |-> ""]

Cats == {[name |-> "Any%", id |-> "c1"], [name |-> "100%", id |-> "c2"]}
CategoryLists == UNION {[1..n -> Cats] : n \in 0..MaxCategories}

U1 == [rel |-> "user", id |-> "u1"]
U2 == [rel |-> "user", id |-> "u2"]
Guest == [rel |-> "guest", name |-> "Guest"]
PlayerLists == {<<U1>>, <<U2, Guest>>, <<Guest>>}
Names == {"Alice", "Bob"}

(* A leaderboard lists its runs by rising time: run i has primary_t = i.    *)
(* The players of its runs repeat with period Period.                       *)
Period == 2
RunLists ==
    UNION {{[i \in 1..n |-> [players |-> f[((i - 1) % Period) + 1], primary_t |-> i]] :
                f \in [1..Period -> PlayerLists]} : n \in 0..MaxRuns}

(* The accounts a user search can match: data[0] is the one line 170 takes. *)
Acct1 == [id |-> "u1", weblink |-> "w1", name |-> "Alice"]
Acct2 == [id |-> "u2", weblink |-> "w2", name |-> "Bob"]
UserHits == {<<>>, <<Acct1>>, <<Acct2, Acct1>>}

(* The runs of an account, as the runs endpoint lists them: a game and a    *)
(* category identifier, a time (run i has primary_t = i), and the "videos"  *)
(* member, which a run has with links, has as null, or does not have.       *)
Absent == "<absent>"
Null == "<null>"
RunShapes ==
    { [game |-> "mc2", category |-> "c1", videos |-> "uri"],
      [game |-> "zzz", category |-> "c1", videos |-> Absent],
      [game |-> "midnight_club_street_racing", category |-> "c2", videos |-> Null] }
ProfileRunLists ==
    UNION {{[i \in 1..n |-> [game |-> f[i].game, category |-> f[i].category,
                             videos |-> f[i].videos, primary_t |-> i]] :
                f \in [1..n -> RunShapes]} : n \in 0..MaxProfileRuns}
CategoryNames == {"Any%", "100%"}

EmptyObj == [kind |-> "empty"]       \* the JSON document {}
Malformed == [kind |-> "malformed"]  \* a body response.json() cannot parse
Docs(u) ==
    {EmptyObj} \cup
    CASE u.ep = "games/categories"        -> {[kind |-> "doc", data |-> l] : l \in CategoryLists}
      [] u.ep = "leaderboards/categories" -> {[kind |-> "doc", data |-> l] : l \in CategoryLists}
      [] u.ep = "leaderboards/category"   -> {[kind |-> "doc", runs |-> l] : l \in RunLists}
      [] u.ep = "users"                   -> {[kind |-> "doc", name |-> n] : n \in Names}
      [] u.ep = "users?lookup"            -> {[kind |-> "doc", data |-> l] : l \in UserHits}
      [] u.ep = "runs"                    -> {[kind |-> "doc", data |-> l] : l \in ProfileRunLists}
      [] u.ep = "categories"              -> {[kind |-> "doc", name |-> n] : n \in CategoryNames}
      [] OTHER                            -> {}

RetryAfterHeaders == {"absent", "2", "7", "soon"}

(* What one requests.get(url) can end with. *)
Responses(u) ==
    {[kind |-> "transport_error"]}
    \cup {[kind |-> "http", status |-> 200, body |-> Malformed]}
    \cup {[kind |-> "http", status |-> 200, body |-> d] : d \in Docs(u)}
    \cup {[kind |-> "http", status |-> 429, retry |-> h] : h \in RetryAfterHeaders}
    \cup {[kind |-> "http", status |-> 500]}

(* ------------------------------- state ------------------------------ *)
VARIABLES
    queue,        \* the commands that wait for the loop, oldest first: for each, the
                  \* game whose category listing was being fetched when it arrived
    cur,          \* the command whose handler holds the event loop, or NoInv
    pc,           \* the handler's position: the source line of its pending call
    url,          \* fetch_data_with_retry: its argument
    attempt,      \* fetch_data_with_retry: the loop variable
    fst,          \* fetch_data_with_retry: "idle", "request", "sleep", "returned", "raised"
    retry_after,  \* fetch_data_with_retry: the local of line 47
    result,       \* fetch_data_with_retry: the value returned
    resps,        \* the responses the current call has received, in order
    waited,       \* seconds slept since the last response of the current call
    cats_dict,    \* speedrun: the local `categories` of line 93
    todo,         \* runners: the categories the loop of line 137 has yet to visit
    runner_ids,   \* runners: the set of line 135
    ids_left,     \* runners: the identifiers the loop of line 148 has yet to visit
    runners_acc,  \* runners: the list `runners` of line 147
    resolved,     \* runners: for each entry of runners_acc, the identifier it came from
    user_data,    \* runner: the local of line 170
    user_runs,    \* runner: the local `runs` of line 177
    visited,      \* runner: the runs the loop of line 180 has been through
    run_list,     \* runner: the list of line 179
    fetched,      \* the urls the running handler has sent a first request to, in order
    reply,        \* what the last handler sent, until the next handler starts
    prev,         \* what the reply before that one returned, if it was a list of
                  \* categories or a roster (recorded when tracking)
    tracking      \* whether prev is recorded

fetchVars == <<url, attempt, fst, retry_after, result, resps, waited>>
profileVars == <<user_data, user_runs, visited, run_list>>
localVars == <<cats_dict, todo, runner_ids, ids_left, runners_acc, resolved, profileVars>>
vars == <<queue, cur, pc, url, attempt, fst, retry_after, result, resps, waited,
          cats_dict, todo, runner_ids, ids_left, runners_acc, resolved, user_data, user_runs,
          visited, run_list, fetched, reply, prev, tracking>>

NoReply == [inv |-> NoInv, msg |-> [kind |-> "none"], fetched |-> <<>>, lookup |-> <<>>,
            ids |-> {}, resolved |-> <<>>]
NoDict == <<>>
NoPrev == [kind |-> "none"]
NoUser == [id |-> "", weblink |-> "", name |-> ""]

InitState ==
    /\ queue = <<>>
    /\ cur = NoInv
    /\ pc = "idle"
    /\ url = NoUrl
    /\ attempt = 0
    /\ fst = "idle"
    /\ retry_after = 0
    /\ result = None
    /\ resps = <<>>
    /\ waited = 0
    /\ cats_dict = NoDict
    /\ todo = <<>>
    /\ runner_ids = {}
    /\ ids_left = {}
    /\ runners_acc = <<>>
    /\ resolved = <<>>
    /\ user_data = NoUser
    /\ user_runs = <<>>
    /\ visited = 0
    /\ run_list = <<>>
    /\ fetched = <<>>
    /\ reply = NoReply
    /\ prev = NoPrev

Init == InitState /\ tracking = FALSE
InitHistory == InitState /\ tracking = TRUE

(* --------------------- fetch_data_with_retry(url) -------------------- *)
(* The call: control enters the loop of line 42 with attempt = 0. *)
Call(u) ==
    /\ url' = u
    /\ attempt' = 0
    /\ fst' = "request"
    /\ retry_after' = 0
    /\ result' = None
    /\ resps' = <<>>
    /\ waited' = 0

(* The caller has taken the returned value: no call is active. *)
NoCall ==
    /\ url' = NoUrl
    /\ attempt' = 0
    /\ fst' = "idle"
    /\ retry_after' = 0
    /\ result' = None
    /\ resps' = <<>>
    /\ waited' = 0

(* Line 47: int(response.headers.get("Retry-After", 5)). *)
(* int(x) of a header's text: its value, where the text is a number. *)
IsInt(x) == x \in {"2", "7"}
ParseInt(x) == CASE x = "2" -> 2 [] x = "7" -> 7
(* The default 5 stands in for a header the response does not have. *)
RetryAfter(h) == IF h = "absent" THEN DefaultRetryAfter ELSE ParseInt(h)

(* FetchRequest with `continue` for `break` at line 51: a status other than *)
(* 200 and 429 is tried again like a 429, without the wait.                 *)
FetchRequestRetriesErrors ==
    /\ fst = "request"
    /\ \E r \in Responses(url) :
        /\ resps' = Append(resps, r)
        /\ fetched' = IF resps = <<>> THEN Append(fetched, url) ELSE fetched
        /\ waited' = 0
        /\ IF r.kind = "transport_error"
             THEN fst' = "raised" /\ UNCHANGED <<result, retry_after, attempt>>
           ELSE IF r.status = 200
             THEN IF r.body = Malformed
                    THEN fst' = "raised" /\ UNCHANGED <<result, retry_after, attempt>>
                    ELSE fst' = "returned" /\ result' = r.body
                         /\ UNCHANGED <<retry_after, attempt>>
           ELSE IF r.status = 429
             THEN IF r.retry = "absent" \/ IsInt(r.retry)
                    THEN /\ fst' = "sleep"
                         /\ retry_after' = RetryAfter(r.retry)
                         /\ UNCHANGED <<result, attempt>>
                    ELSE fst' = "raised" /\ UNCHANGED <<result, retry_after, attempt>>
           ELSE /\ attempt' = attempt + 1
                /\ IF attempt + 1 < MaxAttempts
                     THEN fst' = "request" /\ UNCHANGED result
                     ELSE fst' = "returned" /\ result' = None
                /\ UNCHANGED retry_after
    /\ UNCHANGED <<url, cur, pc, localVars, queue, reply, prev, tracking>>

(* Lines 43-51: one requests.get and the branch on its status. *)
FetchRequest ==
    /\ fst = "request"
    /\ \E r \in Responses(url) :
        /\ resps' = Append(resps, r)
        /\ fetched' = IF resps = <<>> THEN Append(fetched, url) ELSE fetched
        /\ waited' = 0
        /\ IF r.kind = "transport_error"
             THEN \* requests.get raises; nothing catches it
                  fst' = "raised" /\ UNCHANGED <<result, retry_after>>
           ELSE IF r.status = 200
             THEN IF r.body = Malformed
                    THEN \* response.json() raises
                         fst' = "raised" /\ UNCHANGED <<result, retry_after>>
                    ELSE fst' = "returned" /\ result' = r.body /\ UNCHANGED retry_after
           ELSE IF r.status = 429
             THEN IF r.retry = "absent" \/ IsInt(r.retry)
                    THEN /\ fst' = "sleep"
                         /\ retry_after' = RetryAfter(r.retry)
                         /\ UNCHANGED result
                    ELSE \* int() raises ValueError
                         fst' = "raised" /\ UNCHANGED <<result, retry_after>>
           ELSE \* break, then return None
                fst' = "returned" /\ result' = None /\ UNCHANGED retry_after
    /\ UNCHANGED <<url, attempt, cur, pc, localVars, queue, reply, prev, tracking>>

(* FetchSleep without line 49: the loop goes on at once. *)
FetchSleepNoWait ==
    /\ fst = "sleep"
    /\ waited' = waited
    /\ attempt' = attempt + 1
    /\ IF attempt + 1 < MaxAttempts
         THEN fst' = "request" /\ UNCHANGED result
         ELSE fst' = "returned" /\ result' = None
    /\ UNCHANGED <<url, retry_after, resps, cur, pc, localVars, queue, fetched, reply, prev,
                   tracking>>

(* FetchSleep in a `while True` loop: a 429 is always tried again. *)
FetchSleepUnbounded ==
    /\ fst = "sleep"
    /\ waited' = waited + retry_after
    /\ attempt' = attempt + 1
    /\ fst' = "request"
    /\ UNCHANGED <<result, url, retry_after, resps, cur, pc, localVars, queue, fetched, reply,
                   prev, tracking>>

(* Line 49 and the loop's step: time.sleep(retry_after), then the next      *)
(* attempt, or line 52 once range(3) is used up.                            *)
FetchSleep ==
    /\ fst = "sleep"
    /\ waited' = waited + retry_after
    /\ attempt' = attempt + 1
    /\ IF attempt + 1 < MaxAttempts
         THEN fst' = "request" /\ UNCHANGED result
         ELSE fst' = "returned" /\ result' = None
    /\ UNCHANGED <<url, retry_after, resps, cur, pc, localVars, queue, fetched, reply, prev,
                   tracking>>

(* `if not data`: None and the empty document are falsy. *)
Truthy(data) == data.kind = "doc"

(* ------------------------- the event loop --------------------------- *)
(* The game whose category listing is being fetched, or None (recorded when *)
(* tracking).                                                               *)
InFlight ==
    IF tracking /\ fst \in {"request", "sleep"} /\ url.ep = "games/categories"
      THEN url.game
      ELSE NoStr

(* The gateway delivers a command while the loop is busy or idle. *)
Receive ==
    /\ Len(queue) < MaxPending
    /\ queue' = Append(queue, InFlight)
    /\ UNCHANGED <<cur, pc, fetchVars, localVars, fetched, reply, prev, tracking>>

ResetLocals ==
    /\ cats_dict' = NoDict
    /\ todo' = <<>>
    /\ runner_ids' = {}
    /\ ids_left' = {}
    /\ runners_acc' = <<>>
    /\ resolved' = <<>>
    /\ user_data' = NoUser
    /\ user_runs' = <<>>
    /\ visited' = 0
    /\ run_list' = <<>>

(* `await safe_send(ctx, message)` followed by the handler's return.  The   *)
(* reply is recorded with what the handler had fetched and collected: the   *)
(* dict of fetch_categories, runner_ids, and the identifiers behind the     *)
(* names of a roster.                                                       *)
Finish(inv, message, dict, ids, from) ==
    /\ reply' = [inv |-> inv, msg |-> message, fetched |-> fetched, lookup |-> dict,
                 ids |-> ids, resolved |-> from]
    /\ cur' = NoInv
    /\ pc' = "idle"
    /\ fetched' = <<>>
    /\ NoCall
    /\ ResetLocals

Send(inv, message, dict) == Finish(inv, message, dict, {}, <<>>)

(* What a reply returned: the categories of a game, or its roster. *)
Returned(r) ==
    IF r.msg.kind = "Categories"
      THEN [kind |-> "Categories", game |-> GAME_IDS[Lower(r.inv.game)], lookup |-> r.lookup]
    ELSE IF r.msg.kind = "Runners"
      THEN [kind |-> "Runners", game |-> GAME_IDS[Lower(r.inv.game)],
            roster |-> {r.msg.runners[i] : i \in DOMAIN r.msg.runners}]
    ELSE NoPrev

(* The loop is free and takes the oldest waiting command: its handler       *)
(* starts.  The reply before it is history.                                 *)
Start ==
    /\ cur = NoInv
    /\ queue # <<>>
    /\ queue' = Tail(queue)
    /\ prev' = IF tracking THEN Returned(reply) ELSE prev
    /\ UNCHANGED tracking

(* An exception leaves fetch_data_with_retry: no handler of bot.py catches  *)
(* it, so the command ends without a reply of its own.                      *)
Propagate ==
    /\ fst = "raised"
    /\ Send(cur, [kind |-> "Exception"], cats_dict)
    /\ UNCHANGED <<queue, prev, tracking>>

(* ------------------------- fetch_categories ------------------------- *)
(* Line 67: the dict comprehension; a later entry replaces an earlier one   *)
(* of the same lower-cased name.                                            *)
CategoryDict(cats) ==
    [n \in {Lower(cats[i].name) : i \in DOMAIN cats} |->
        LET last == CHOOSE i \in DOMAIN cats :
                      /\ Lower(cats[i].name) = n
                      /\ \A j \in DOMAIN cats : Lower(cats[j].name) = n => j <= i
        IN cats[last].id]

(* Lines 63-67: what fetch_categories returns for the fetched data. *)
fetch_categories(data) ==
    IF ~Truthy(data) THEN NoDict ELSE CategoryDict(data.data)

(* ---------------------------- categories ---------------------------- *)
(* categories without the check of lines 73-75. *)
categoriesUnchecked ==
    /\ Start
    /\ \E game \in GameArgs :
        LET inv == [cmd |-> "categories", game |-> game, category |-> "", top |-> "",
                    runner_name |-> "", during |-> Head(queue)]
            game_id == Get(GAME_IDS, Lower(game))
        IN /\ cur' = inv
           /\ pc' = "categories:77"
           /\ Call(CategoriesUrl(game_id))
           /\ ResetLocals
           /\ reply' = NoReply
           /\ fetched' = <<>>

(* Lines 72-77: the game lookup, then the call of fetch_categories. *)
categories ==
    /\ Start
    /\ \E game \in GameArgs :
        LET inv == [cmd |-> "categories", game |-> game, category |-> "", top |-> "",
                    runner_name |-> "", during |-> Head(queue)]
            game_id == Get(GAME_IDS, Lower(game))
        IN IF game_id = NoStr
             THEN Send(inv, [kind |-> "InvalidGame"], NoDict)
             ELSE /\ cur' = inv
                  /\ pc' = "categories:77"
                  /\ Call(CategoriesUrl(game_id))
                  /\ ResetLocals
                  /\ reply' = NoReply
                  /\ fetched' = <<>>

(* Lines 77-83: fetch_categories has returned. *)
categories_77 ==
    /\ pc = "categories:77"
    /\ fst = "returned"
    /\ LET cats == fetch_categories(result)
       IN IF DOMAIN cats = {}
            THEN Send(cur, [kind |-> "NoCategories"], cats)
            ELSE Send(cur, [kind |-> "Categories", names |-> DOMAIN cats], cats)
    /\ UNCHANGED <<queue, prev, tracking>>

(* ----------------------------- speedrun ----------------------------- *)
(* Lines 88-93. *)
speedrun ==
    /\ Start
    /\ \E game \in GameArgs, category \in CategoryArgs, top \in TopArgs :
        LET inv == [cmd |-> "speedrun", game |-> game, category |-> category, top |-> top,
                    runner_name |-> "", during |-> Head(queue)]
            game_id == Get(GAME_IDS, Lower(game))
        IN IF game_id = NoStr
             THEN Send(inv, [kind |-> "InvalidGame"], NoDict)
             ELSE /\ cur' = inv
                  /\ pc' = "speedrun:93"
                  /\ Call(CategoriesUrl(game_id))
                  /\ ResetLocals
                  /\ reply' = NoReply
                  /\ fetched' = <<>>

(* Line 99. *)
TopCount(top) == IF Lower(top) = "top5" THEN Top5 ELSE Top1

(* Lines 93-101: the category lookup, then the leaderboard request. *)
speedrun_93 ==
    /\ pc = "speedrun:93"
    /\ fst = "returned"
    /\ LET cats == fetch_categories(result)
           category_id == Get(cats, Lower(cur.category))
           game_id == GAME_IDS[Lower(cur.game)]
       IN IF category_id = NoStr
            THEN Send(cur, [kind |-> "InvalidCategory"], cats)
            ELSE /\ cats_dict' = cats
                 /\ pc' = "speedrun:101"
                 /\ Call(LeaderboardUrl(game_id, category_id, TopCount(cur.top)))
                 /\ UNCHANGED <<cur, reply, fetched, todo, runner_ids, ids_left, runners_acc,
                             resolved, profileVars>>
    /\ UNCHANGED <<queue, prev, tracking>>

(* Entries over `runs` in place of runs[:top_count]. *)
EntriesUnsliced(runs, top_count) ==
    [i \in 1..Len(runs) |->
        [rank |-> i, player |-> IF "name" \in DOMAIN runs[i].players[1]
                                  THEN runs[i].players[1].name ELSE "Unknown",
         time |-> runs[i].primary_t]]

(* Lines 110-115: one entry per run of runs[:top_count], numbered from 1;   *)
(* the player is players[0].get("name", "Unknown").                         *)
PlayerName(p) == IF "name" \in DOMAIN p THEN p.name ELSE "Unknown"
Entries(runs, top_count) ==
    [i \in 1..(IF Len(runs) < top_count THEN Len(runs) ELSE top_count) |->
        [rank |-> i, player |-> PlayerName(runs[i].players[1]), time |-> runs[i].primary_t]]

(* speedrun_101 with `if not data or not runs`: a leaderboard without runs  *)
(* is answered like a fetch that failed.                                    *)
speedrun_101_EmptyIsNoRuns ==
    /\ pc = "speedrun:101"
    /\ fst = "returned"
    /\ LET top_count == TopCount(cur.top)
       IN IF ~Truthy(result) \/ result.runs = <<>>
            THEN Send(cur, [kind |-> "NoRuns"], cats_dict)
            ELSE Send(cur, [kind |-> "Runs", top_count |-> top_count,
                            entries |-> Entries(result.runs, top_count),
                            available |-> Len(result.runs)], cats_dict)
    /\ UNCHANGED <<queue, prev, tracking>>

(* Lines 103-117: the leaderboard request has returned. *)
speedrun_101 ==
    /\ pc = "speedrun:101"
    /\ fst = "returned"
    /\ LET top_count == TopCount(cur.top)
       IN IF ~Truthy(result)
            THEN Send(cur, [kind |-> "NoRuns"], cats_dict)
            ELSE Send(cur, [kind |-> "Runs", top_count |-> top_count,
                            entries |-> Entries(result.runs, top_count),
                            available |-> Len(result.runs)], cats_dict)
    /\ UNCHANGED <<queue, prev, tracking>>

(* ----------------------------- runners ------------------------------ *)
(* Lines 122-128. *)
runners ==
    /\ Start
    /\ \E game \in GameArgs :
        LET inv == [cmd |-> "runners", game |-> game, category |-> "", top |-> "",
                    runner_name |-> "", during |-> Head(queue)]
            game_id == Get(GAME_IDS, Lower(game))
        IN IF game_id = NoStr
             THEN Send(inv, [kind |-> "InvalidGame"], NoDict)
             ELSE /\ cur' = inv
                  /\ pc' = "runners:128"
                  /\ Call(GameLeaderboardsUrl(game_id))
                  /\ ResetLocals
                  /\ reply' = NoReply
                  /\ fetched' = <<>>

(* Lines 154-158: the reply once every identifier has been looked up. *)
RunnersReply(ids, names, from) ==
    IF names = <<>>
      THEN Finish(cur, [kind |-> "NoRunners"], NoDict, ids, from)
      ELSE Finish(cur, [kind |-> "Runners", runners |-> names], NoDict, ids, from)

(* NextRunner over a collection that never gives up the identifier it has  *)
(* visited.                                                                 *)
NextRunnerRevisits(ids, left, names, from) ==
    IF left = {}
      THEN RunnersReply(ids, names, from)
      ELSE /\ \E runner_id \in left :
                /\ Call(UserUrl(runner_id))
                /\ ids_left' = left
           /\ pc' = "runners:150"
           /\ runner_ids' = ids
           /\ runners_acc' = names
           /\ resolved' = from
           /\ todo' = <<>>
           /\ UNCHANGED <<cur, reply, fetched, cats_dict, profileVars>>

(* Lines 147-150: the loop over runner_ids takes its next identifier (a set *)
(* is iterated in no particular order), or ends.                            *)
NextRunner(ids, left, names, from) ==
    IF left = {}
      THEN RunnersReply(ids, names, from)
      ELSE /\ \E runner_id \in left :
                /\ Call(UserUrl(runner_id))
                /\ ids_left' = left \ {runner_id}
           /\ pc' = "runners:150"
           /\ runner_ids' = ids
           /\ runners_acc' = names
           /\ resolved' = from
           /\ todo' = <<>>
           /\ UNCHANGED <<cur, reply, fetched, cats_dict, profileVars>>

(* Lines 137-139: the loop over the categories takes its next category, or  *)
(* ends and the loop over runner_ids begins.                                *)
NextCategory(cats, ids) ==
    IF cats = <<>>
      THEN NextRunner(ids, ids, <<>>, <<>>)
      ELSE /\ Call(LeaderboardUrl(GAME_IDS[Lower(cur.game)], Head(cats).id, 0))
           /\ pc' = "runners:139"
           /\ todo' = cats
           /\ runner_ids' = ids
           /\ UNCHANGED <<cur, reply, fetched, cats_dict, ids_left, runners_acc, resolved,
                       profileVars>>

(* Lines 130-135: the list of the game's categories has returned. *)
runners_128 ==
    /\ pc = "runners:128"
    /\ fst = "returned"
    /\ IF ~Truthy(result)
         THEN Send(cur, [kind |-> "NoRunners"], NoDict)
         ELSE NextCategory(result.data, {})
    /\ UNCHANGED <<queue, prev, tracking>>

(* Lines 141-145: the identifiers of the registered players of the runs. *)
UsersOf(runs) ==
    {runs[i].players[j].id :
        <<i, j>> \in {<<i, j>> \in (DOMAIN runs) \X (1..2) :
                        /\ j \in DOMAIN runs[i].players
                        /\ runs[i].players[j].rel = "user"}}

(* runners_139 with `runner_ids = set(...)` inside the loop: the runners of *)
(* a leaderboard replace those of the leaderboards before it.               *)
runners_139_Overwrites ==
    /\ pc = "runners:139"
    /\ fst = "returned"
    /\ NextCategory(Tail(todo),
                    IF Truthy(result) THEN UsersOf(result.runs) ELSE runner_ids)
    /\ UNCHANGED <<queue, prev, tracking>>

(* Lines 140-145: one category's leaderboard has returned. *)
runners_139 ==
    /\ pc = "runners:139"
    /\ fst = "returned"
    /\ NextCategory(Tail(todo),
                    IF Truthy(result) THEN runner_ids \cup UsersOf(result.runs) ELSE runner_ids)
    /\ UNCHANGED <<queue, prev, tracking>>

(* Lines 151-152: one runner's profile has returned. *)
runners_150 ==
    /\ pc = "runners:150"
    /\ fst = "returned"
    /\ NextRunner(runner_ids, ids_left,
                  IF Truthy(result) THEN Append(runners_acc, result.name) ELSE runners_acc,
                  IF Truthy(result) THEN Append(resolved, url.id) ELSE resolved)
    /\ UNCHANGED <<queue, prev, tracking>>

(* ------------------------------ runner ------------------------------ *)
(* Lines 163-164. *)
runner ==
    /\ Start
    /\ \E runner_name \in RunnerArgs :
        /\ cur' = [cmd |-> "runner", game |-> "", category |-> "", top |-> "",
                   runner_name |-> runner_name, during |-> Head(queue)]
        /\ pc' = "runner:164"
        /\ Call(UsersLookupUrl(runner_name))
        /\ ResetLocals
        /\ reply' = NoReply
        /\ fetched' = <<>>

(* Line 182: the key of GAME_IDS whose value is game_id, or "Unknown Game". *)
GameName(game_id) ==
    IF \E name \in DOMAIN GAME_IDS : GAME_IDS[name] = game_id
      THEN CHOOSE name \in DOMAIN GAME_IDS : GAME_IDS[name] = game_id
      ELSE "Unknown Game"

(* Line 186. *)
CategoryName(category_data) ==
    IF Truthy(category_data) THEN category_data.name ELSE "Unknown Category"

(* Line 188, for a run whose "videos" member is not null. *)
Video(run) == IF run.videos # Absent THEN run.videos ELSE "No video"

(* Lines 181-190: the entry of run_list for one run. *)
JoinedRecord(run, category_data) ==
    [game_name |-> GameName(run.game), category_name |-> CategoryName(category_data),
     time |-> run.primary_t, video |-> Video(run)]

(* Line 192: the profile, recorded with the runs it was built from. *)
Profile(user, rs, list) ==
    [kind |-> "Profile", name |-> user.name, weblink |-> user.weblink, runs |-> rs,
     run_list |-> list]

(* Lines 180-185: the loop over runs takes its next run and asks for its    *)
(* category, or ends and the profile is sent (line 192).                    *)
NextRun(user, rs, n, list) ==
    IF n = Len(rs)
      THEN Send(cur, Profile(user, rs, list), NoDict)
      ELSE /\ Call(CategoryUrl(rs[n + 1].category))
           /\ pc' = "runner:185"
           /\ user_data' = user
           /\ user_runs' = rs
           /\ visited' = n
           /\ run_list' = list
           /\ UNCHANGED <<cur, reply, fetched, cats_dict, todo, runner_ids, ids_left,
                          runners_acc, resolved>>

(* Lines 166-176: the user search has returned. *)
runner_164 ==
    /\ pc = "runner:164"
    /\ fst = "returned"
    /\ IF ~Truthy(result) \/ result.data = <<>>
         THEN Send(cur, [kind |-> "NotFound"], NoDict)
         ELSE /\ Call(RunsUrl(result.data[1].id))
              /\ pc' = "runner:176"
              /\ user_data' = result.data[1]
              /\ UNCHANGED <<cur, reply, fetched, cats_dict, todo, runner_ids, ids_left,
                             runners_acc, resolved, user_runs, visited, run_list>>
    /\ UNCHANGED <<queue, prev, tracking>>

(* Lines 177-180: the runs of the account have returned. *)
runner_176 ==
    /\ pc = "runner:176"
    /\ fst = "returned"
    /\ NextRun(user_data, IF Truthy(result) THEN result.data ELSE <<>>, 0, <<>>)
    /\ UNCHANGED <<queue, prev, tracking>>

(* runner_185 with a loop that leaves out the runs of a game GAME_IDS does   *)
(* not list.                                                                *)
runner_185_SkipsUnknownGames ==
    /\ pc = "runner:185"
    /\ fst = "returned"
    /\ LET run == user_runs[visited + 1]
       IN IF run.videos = Null
            THEN Send(cur, [kind |-> "Exception"], NoDict)
            ELSE NextRun(user_data, user_runs, visited + 1,
                         IF GameName(run.game) = "Unknown Game"
                           THEN run_list
                           ELSE Append(run_list, JoinedRecord(run, result)))
    /\ UNCHANGED <<queue, prev, tracking>>

(* Lines 186-190: the category of one run has returned.  A run whose        *)
(* "videos" member is null makes line 188 raise a TypeError, which nothing  *)
(* catches.                                                                 *)
runner_185 ==
    /\ pc = "runner:185"
    /\ fst = "returned"
    /\ LET run == user_runs[visited + 1]
       IN IF run.videos = Null
            THEN Send(cur, [kind |-> "Exception"], NoDict)
            ELSE NextRun(user_data, user_runs, visited + 1,
                         Append(run_list, JoinedRecord(run, result)))
    /\ UNCHANGED <<queue, prev, tracking>>

(* --------------------------- specification -------------------------- *)
Next ==
    \/ Receive
    \/ FetchRequest
    \/ FetchSleep
    \/ Propagate
    \/ categories
    \/ categories_77
    \/ speedrun
    \/ speedrun_93
    \/ speedrun_101
    \/ runners
    \/ runners_128
    \/ runners_139
    \/ runners_150
    \/ runner
    \/ runner_164
    \/ runner_176
    \/ runner_185

Spec == Init /\ [][Next]_vars

(* The same program, with the reply before the last one recorded in prev. *)
SpecHistory == InitHistory /\ [][Next]_vars

(* ============================== claims ============================== *)
Range(seq) == {seq[i] : i \in DOMAIN seq}
Last(seq) == seq[Len(seq)]
NoDuplicates(seq) == \A i, j \in DOMAIN seq : i # j => seq[i] # seq[j]
(* The upstream identifier a game key stands for, matched as the code does. *)
GameOf(key) == Get(GAME_IDS, Lower(key))
IsLookup(r) == r.inv.cmd \in {"categories", "speedrun"} /\ r.msg.kind # "InvalidGame"

(* C1: a caller whose command arrived while the category listing of game G  *)
(* was being fetched for another caller, a fetch that then returned G's     *)
(* categories, issues no request of its own to G's category listing.        *)
C1_SingleFlight ==
    (cur.during # NoStr /\ prev.kind = "Categories" /\ prev.game = cur.during)
        => CategoriesUrl(cur.during) \notin Range(fetched)

(* C2: once a category lookup for game G has returned its mapping, a later  *)
(* category lookup for G sends no request to G's category listing and       *)
(* returns the same mapping.                                                *)
C2_LaterLookupsUseCache ==
    prev.kind = "Categories" =>
        /\ CategoriesUrl(prev.game) \notin Range(fetched)
        /\ (IsLookup(reply) /\ GameOf(reply.inv.game) = prev.game) =>
              /\ reply.fetched = <<>> \/ Head(reply.fetched) # CategoriesUrl(prev.game)
              /\ reply.lookup = prev.lookup

(* C3: when runners is invoked twice in sequence for one game, the second   *)
(* invocation sends no request and returns the same set of names.           *)
C3_SecondRosterFromMemo ==
    prev.kind = "Runners" =>
        /\ (cur.cmd = "runners" /\ GameOf(cur.game) = prev.game) => fetched = <<>>
        /\ (reply.inv.cmd = "runners" /\ GameOf(reply.inv.game) = prev.game) =>
              /\ reply.fetched = <<>>
              /\ reply.msg.kind = "Runners"
              /\ Range(reply.msg.runners) = prev.roster

(* C4 as stated: a roster holds no display name twice, and every runner the *)
(* handler found in a leaderboard contributes exactly one entry.            *)
C4_NoDuplicateNames ==
    reply.msg.kind \in {"Runners", "NoRunners"} =>
        /\ reply.msg.kind = "Runners" => NoDuplicates(reply.msg.runners)
        /\ Len(reply.resolved) = Cardinality(reply.ids)

C4_Entries ==
    /\ Len(resolved) = Len(runners_acc)
    /\ NoDuplicates(resolved)
    /\ Range(resolved) \subseteq (runner_ids \ ids_left)
    /\ reply.msg.kind = "Runners" =>
          /\ Len(reply.resolved) = Len(reply.msg.runners)
          /\ NoDuplicates(reply.resolved)
          /\ Range(reply.resolved) \subseteq reply.ids

(* The entries after a step of the loop of line 148. *)
ResolvedNext == IF pc' = "runners:150" THEN resolved' ELSE reply'.resolved
C4_Lookup ==
    runners_150 =>
        ResolvedNext = IF Truthy(result) THEN Append(resolved, url.id) ELSE resolved

(* C4, amended: a roster holds at most one entry for each runner            *)
(* identifier, however many leaderboards the runner appears in: exactly one *)
(* when the runner's profile lookup returns a document and none when it     *)
(* does not.  (Two entries show the same name only for two identifiers.)    *)
C4_OneEntryPerIdentifier == []C4_Entries /\ [][C4_Lookup]_vars

(* A roster of two entries with one display name, from two identifiers. *)
C4_Witness ==
    /\ reply.msg.kind = "Runners"
    /\ reply.msg.runners = <<"Alice", "Alice">>
    /\ Cardinality(reply.ids) = 2
    /\ Len(reply.fetched) = 5

(* The wait a 429 response asks for in its Retry-After header. *)
Is429(r) == r.kind = "http" /\ r.status = 429
Is200(r) == r.kind = "http" /\ r.status = 200
AskedWait(r) == CASE r.retry = "2" -> 2 [] r.retry = "7" -> 7 [] OTHER -> 0

C5_Waits ==
    /\ (fst \in {"request", "returned"} /\ resps # <<>> /\ Is429(Last(resps)))
          => waited >= AskedWait(Last(resps))
    /\ (fst = "returned" /\ Len(resps) = 2 /\ Is429(resps[1]) /\ Is200(resps[2]))
          => result = resps[2].body

(* C5 as stated: after a 429 with Retry-After: d the call neither returns   *)
(* nor sends again before d seconds have passed, and then it sends again    *)
(* (it does not return on a 429); a 429 followed by a 200 returns the 200's *)
(* document.                                                                *)
C5_RetriesAfterEvery429 ==
    /\ C5_Waits
    /\ ~(fst = "returned" /\ resps # <<>> /\ Is429(Last(resps)))

C5_Retry ==
    FetchSleep =>
        IF Len(resps) < 3
          THEN fst' = "request" /\ url' = url
          ELSE fst' = "returned" /\ result' = None

(* C5, amended: after a 429 with Retry-After: d the call neither returns    *)
(* nor sends again before d seconds have passed; it then sends the same url *)
(* again, unless the 429 answered its third request, in which case it       *)
(* returns None; a 429 followed by a 200 returns the 200's document.        *)
C5_BackoffThenRetry == []C5_Waits /\ [][C5_Retry]_vars

(* One 429 with Retry-After: 2, then a 200: the document is returned. *)
C5_Witness ==
    /\ fst = "returned"
    /\ Len(resps) = 2
    /\ Is429(resps[1]) /\ resps[1].retry = "2"
    /\ Is200(resps[2])
    /\ Truthy(result)

(* The steps a call of fetch_data_with_retry has left, at most. *)
Measure ==
    CASE fst = "request" -> 2 * (3 - Len(resps))
      [] fst = "sleep"   -> 2 * (3 - Len(resps)) + 1
      [] OTHER           -> 0
C6_Bounded ==
    /\ Len(resps) <= 3
    /\ fst = "request" => Len(resps) < 3
    /\ Measure >= 0
C6_Progress ==
    (fst \in {"request", "sleep"} /\ <<fst, resps>>' # <<fst, resps>>) => Measure' < Measure

(* C6: whatever the server answers, one call of fetch_data_with_retry sends *)
(* at most 3 requests, and every step of the call brings its end nearer: it *)
(* ends after at most 6 steps.                                              *)
C6_AtMostThreeRequests == []C6_Bounded /\ [][C6_Progress]_vars

(* A server that answers 429 three times: the call has returned. *)
C6_Witness ==
    /\ fst = "returned"
    /\ Len(resps) = 3
    /\ \A i \in 1..3 : Is429(resps[i])

(* The commands that take a game key. *)
GameKeyed(inv) == inv.cmd \in {"categories", "speedrun", "runners"}

(* C7 as stated: a command whose game key is not a key of GAME_IDS is       *)
(* answered "invalid game" and sends no request.                            *)
C7_KeyNotInTable ==
    /\ (GameKeyed(cur) /\ cur.game \notin DOMAIN GAME_IDS) => FALSE
    /\ (GameKeyed(reply.inv) /\ reply.inv.game \notin DOMAIN GAME_IDS) =>
          reply.msg.kind = "InvalidGame" /\ reply.fetched = <<>>

(* C7, amended: a command (categories, speedrun, runners) whose game key,   *)
(* lower-cased, is not a key of GAME_IDS is answered "invalid game" and     *)
(* sends no request: its handler never gets past the lookup.                *)
C7_UnknownKeyNoRequest ==
    /\ (fst # "idle" \/ fetched # <<>>) => cur # NoInv
    /\ GameKeyed(cur) => Lower(cur.game) \in DOMAIN GAME_IDS
    /\ (GameKeyed(reply.inv) /\ Lower(reply.inv.game) \notin DOMAIN GAME_IDS) =>
          reply.msg.kind = "InvalidGame" /\ reply.fetched = <<>>

(* The runners command has been answered "invalid game" for the key "gta". *)
C7_Witness ==
    /\ reply.inv.game = "gta"
    /\ reply.inv.cmd = "runners"
    /\ reply.msg.kind = "InvalidGame"
    /\ reply.fetched = <<>>

(* C8: speedrun shows at most 1 run when asked for 1 and at most 5 when     *)
(* asked for the top 5, whatever the number of runs in the response, and    *)
(* shows them numbered 1, 2, ... in the order of the leaderboard.           *)
C8_TopRuns ==
    reply.msg.kind = "Runs" =>
        LET entries == reply.msg.entries
            asked == IF reply.inv.top \in {"top5", "TOP5"} THEN 5 ELSE 1
        IN /\ Len(entries) <= asked
           /\ \A i \in DOMAIN entries : entries[i].rank = i
           /\ \A i, j \in DOMAIN entries : i < j => entries[i].time < entries[j].time

(* The response held 6 runs and the top 5 were shown. *)
C8_Witness ==
    /\ reply.msg.kind = "Runs"
    /\ reply.msg.available = 6
    /\ Len(reply.msg.entries) = 5

(* C9: a request that ends with a status other than 200 and 429, or with a  *)
(* transport failure, makes the call return a failure (None) without        *)
(* another request and without an exception.                                *)
C9_FailureIsReturned ==
    (resps # <<>> /\ (Last(resps).kind = "transport_error"
                      \/ Last(resps).status \notin {200, 429}))
        => fst = "returned" /\ result = None

(* C10: a 200 response whose body is not JSON makes the call return a       *)
(* failure (None): no exception reaches the handler.                        *)
C10_MalformedIsFailure ==
    (resps # <<>> /\ Is200(Last(resps)) /\ Last(resps).body = Malformed)
        => fst = "returned" /\ result = None

(* C11: a 429 response whose Retry-After header is absent or is not a       *)
(* number makes the call wait the default 5 seconds and then send the same  *)
(* request again: the call does not raise, and it does not return on it.    *)
C11_DefaultWaitThenRetry ==
    (resps # <<>> /\ Is429(Last(resps)) /\ Last(resps).retry \notin {"2", "7"}) =>
        \/ fst = "sleep" /\ retry_after = DefaultRetryAfter
        \/ fst = "request" /\ waited = DefaultRetryAfter

(* C12: while a call of fetch_data_with_retry waits out a 429 (line 49),    *)
(* the handler of another command that has arrived can start, and so send   *)
(* its own request: the wait leaves the event loop to the other commands.   *)
C12_BackoffYieldsTheLoop ==
    (fst = "sleep" /\ queue # <<>>) => ENABLED (categories \/ speedrun \/ runners \/ runner)

(* The call has used up range(3): every request was answered 429. *)
C13_Exhausted == fst = "returned" /\ Len(resps) = 3 /\ \A i \in 1..3 : Is429(resps[i])
(* A handler that replies on such a call does not reply "invalid category", *)
(* "no runs found" or "runner not found".                                   *)
C13_Ceiling ==
    (C13_Exhausted /\ reply' # reply) =>
        reply'.msg.kind \notin {"InvalidCategory", "NoRuns", "NotFound"}
(* 429 responses that end with a 200 leave the call's result what the 200   *)
(* alone gives.                                                             *)
C13_Absorbed ==
    (fst = "returned" /\ resps # <<>> /\ Is200(Last(resps))) => result = Last(resps).body

(* C13: when every attempt of a fetch was answered 429, the command reports *)
(* the upstream as unavailable, which is none of "invalid category", "no    *)
(* data found" and "not found"; throttling that ends earlier does not show  *)
(* in the result.                                                           *)
C13_CeilingIsUpstreamUnavailable == []C13_Absorbed /\ [][C13_Ceiling]_vars

(* The user search returned a document that lists no account. *)
C14_ZeroMatches == Truthy(result) /\ result.data = <<>>
C14_Search ==
    runner_164 =>
        /\ reply'.msg.kind = "NotFound" <=> C14_ZeroMatches
        /\ reply'.msg.kind = "NotFound" => reply'.fetched = <<url>>
C14_Reply ==
    (reply.inv.cmd = "runner" /\ reply.msg.kind = "NotFound") =>
        reply.fetched = <<UsersLookupUrl(reply.inv.runner_name)>>

(* C14: runner replies "not found" when the user search succeeded and       *)
(* matched no account, and then has sent no request but the search; a       *)
(* search that failed is not answered "not found".                          *)
C14_NotFoundIsNotFailure == []C14_Reply /\ [][C14_Search]_vars

(* The label of a game identifier: the key GAME_IDS lists it under. *)
C15_GameLabel(label, game_id) ==
    IF label \in DOMAIN GAME_IDS THEN GAME_IDS[label] = game_id
    ELSE label = "Unknown Game" /\ \A k \in DOMAIN GAME_IDS : GAME_IDS[k] # game_id
(* The records are those of the first runs of rs, one for one and in order. *)
C15_Joined(list, rs) ==
    /\ Len(list) <= Len(rs)
    /\ \A i \in DOMAIN list :
          /\ list[i].time = rs[i].primary_t
          /\ C15_GameLabel(list[i].game_name, rs[i].game)
          /\ list[i].category_name \in CategoryNames \cup {"Unknown Category"}
C15_Records ==
    /\ pc = "runner:185" => Len(run_list) = visited /\ C15_Joined(run_list, user_runs)
    /\ reply.msg.kind = "Profile" =>
          /\ Len(reply.msg.run_list) = Len(reply.msg.runs)
          /\ C15_Joined(reply.msg.run_list, reply.msg.runs)
(* The records after a step of the loop of line 180. *)
C15_ListNext == IF pc' = "runner:185" THEN run_list' ELSE reply'.msg.run_list
C15_Label ==
    (runner_185 /\ reply'.msg.kind # "Exception") =>
        /\ Len(C15_ListNext) = Len(run_list) + 1
        /\ Last(C15_ListNext).category_name =
              IF Truthy(result) THEN result.name ELSE "Unknown Category"

C16_Leaderboard == resps # <<>> /\ Is200(Last(resps)) /\ Last(resps).body.kind = "doc"
C16_Step ==
    speedrun_101 =>
        /\ (C16_Leaderboard /\ Last(resps).body.runs = <<>>) =>
              reply'.msg.kind = "Runs" /\ reply'.msg.entries = <<>>
        /\ reply'.msg.kind = "NoRuns" => ~C16_Leaderboard
        /\ reply'.msg.kind \in {"Runs", "NoRuns"}

(* C16: speedrun answers a leaderboard that has no runs with an empty list  *)
(* of runs, and answers "no runs found" only when the leaderboard fetch     *)
(* gave no leaderboard (a status other than 200, three 429s, or a document  *)
(* without data).                                                           *)
C16_EmptyIsNotFailure == [][C16_Step]_vars

(* Both cases have been answered: this one is the empty leaderboard. *)
C16_Witness ==
    /\ reply.inv.cmd = "speedrun"
    /\ reply.msg.kind = "Runs"
    /\ reply.msg.available = 0
    /\ reply.msg.entries = <<>>

(* The identifiers of the players of rs that are registered accounts. *)
C17_Registered(rs) ==
    UNION {{rs[i].players[j].id : j \in {k \in DOMAIN rs[i].players :
                                            rs[i].players[k].rel = "user"}} : i \in DOMAIN rs}
C17_Document == resps # <<>> /\ Is200(Last(resps)) /\ Last(resps).body.kind = "doc"
(* The set of identifiers and the list of names after a step of runners. *)
C17_IdsNext == IF pc' = "idle" THEN reply'.ids ELSE runner_ids'
C17_NamesNext ==
    IF pc' = "runners:150" THEN runners_acc'
    ELSE IF reply'.msg.kind = "Runners" THEN reply'.msg.runners ELSE <<>>
C17_Steps ==
    /\ runners_128 => C17_IdsNext = {}
    /\ runners_139 =>
          C17_IdsNext = runner_ids \cup (IF C17_Document
                                           THEN C17_Registered(Last(resps).body.runs)
                                           ELSE {})
    /\ runners_150 =>
          /\ C17_IdsNext = runner_ids
          /\ C17_NamesNext = IF C17_Document
                               THEN Append(runners_acc, Last(resps).body.name)
                               ELSE runners_acc
(* The profile lookups of a finished roster: one for each identifier. *)
C17_Lookups(r) == SelectSeq(r.fetched, LAMBDA u : u.ep = "users")
C17_Roster ==
    (reply.inv.cmd = "runners" /\ reply.msg.kind \in {"Runners", "NoRunners"}) =>
        /\ Len(C17_Lookups(reply)) = Cardinality(reply.ids)
        /\ {C17_Lookups(reply)[i].id : i \in DOMAIN C17_Lookups(reply)} = reply.ids
        /\ reply.ids \subseteq {U1.id, U2.id}
        /\ reply.msg.kind = "Runners" =>
              reply.msg.runners \in [1..Len(reply.resolved) -> Names]

(* C17: the roster is the list of the names that the profile lookups        *)
(* returned for the identifiers found with rel "user" in the runs of the    *)
(* category leaderboards that were fetched: a guest adds no identifier, and *)
(* each identifier found is looked up by exactly one call.                  *)
C17_RosterIsRegisteredRunners == []C17_Roster /\ [][C17_Steps]_vars

(* Two identifiers were found, one of them next to a guest; one of the two  *)
(* profile lookups failed.                                                  *)
C17_Witness ==
    /\ reply.msg.kind = "Runners"
    /\ reply.ids = {"u1", "u2"}
    /\ Len(C17_Lookups(reply)) = 2
    /\ Len(reply.msg.runners) = 1

(* The request for one category's leaderboard has failed: by a status other *)
(* than 200 and 429, by a transport failure or by a body that is not JSON.  *)
C18_LeaderboardFailed ==
    /\ pc = "runners:139"
    /\ resps # <<>>
    /\ \/ Last(resps).kind = "transport_error"
       \/ Last(resps).status \notin {200, 429}
       \/ Is200(Last(resps)) /\ Last(resps).body = Malformed
C18_GoesOn == C18_LeaderboardFailed => fst = "returned"
C18_Step ==
    runners_139 =>
        /\ reply'.msg.kind \in {"none", "Runners", "NoRunners"}
        /\ runner_ids \subseteq C17_IdsNext
        /\ C17_Document => C17_Registered(Last(resps).body.runs) \subseteq C17_IdsNext

(* C18: in runners, a failed fetch of one category's leaderboard does not   *)
(* end the command: the loop goes on to the next category with the          *)
(* identifiers collected so far, and the identifiers of every leaderboard   *)
(* that was fetched are kept to the end of the loop.                        *)
C18_CategoryFailureTolerated == []C18_GoesOn /\ [][C18_Step]_vars

(* The category lookups a finished command sent. *)
C19_Lookups(r) == SelectSeq(r.fetched, LAMBDA u : u.ep = "categories")

(* C19: a profile is built with as many category lookups as there are       *)
(* distinct category identifiers among the runs of the account.             *)
C19_OneLookupPerCategory ==
    reply.msg.kind = "Profile" =>
        Len(C19_Lookups(reply)) =
            Cardinality({reply.msg.runs[i].category : i \in DOMAIN reply.msg.runs})

C20_Count429 == Cardinality({i \in DOMAIN resps : Is429(resps[i])})
(* What a call that has returned has received and gives back. *)
C20_Returned ==
    fst = "returned" =>
        /\ Len(resps) \in 1..3
        /\ \A i \in 1..(Len(resps) - 1) : Is429(resps[i])
        /\ IF Is200(Last(resps))
             THEN result = Last(resps).body
             ELSE /\ result = None
                  /\ \/ Last(resps).status \notin {200, 429}
                     \/ Len(resps) = 3 /\ Is429(Last(resps))
        /\ attempt = C20_Count429
(* A 200 with a document ends the call at once; so does another status. *)
C20_Ends ==
    (resps # <<>> /\ Last(resps).kind = "http" /\ ~Is429(Last(resps))
                  /\ ~(Is200(Last(resps)) /\ Last(resps).body = Malformed))
        => fst = "returned"
(* After a 429 the call has slept once, for the time line 47 computed, when *)
(* it sends again or returns.                                               *)
C20_Slept ==
    (fst \in {"request", "returned"} /\ resps # <<>> /\ Is429(Last(resps))) =>
        /\ retry_after = (IF Last(resps).retry = "absent" THEN 5 ELSE AskedWait(Last(resps)))
        /\ waited = retry_after
C20_Step ==
    /\ (fst = "sleep" /\ fst' # "sleep") => waited = 0 /\ waited' = retry_after
    /\ (fst = "sleep" /\ fst' = "returned") => Len(resps) = 3
    /\ (fst = "sleep" /\ fst' = "request") => Len(resps) < 3 /\ url' = url

(* C20: a call of fetch_data_with_retry that returns gives back the         *)
(* document of a 200 response exactly when that 200 came within its first 3 *)
(* responses with only 429s before it; after a status other than 200 and    *)
(* 429 (before any 200), or after three 429s, it returns None; and it has   *)
(* slept once for each 429, the third one included.                         *)
C20_FetchResult == [](C20_Returned /\ C20_Ends /\ C20_Slept) /\ [][C20_Step]_vars

(* Two 429s, then a 200: the document is returned after two sleeps. *)
C20_Witness ==
    /\ fst = "returned"
    /\ Len(resps) = 3
    /\ Is429(resps[1]) /\ Is429(resps[2]) /\ Is200(resps[3])
    /\ result = resps[3].body
    /\ attempt = 2

====
